---- MODULE Spec2Model ----
(***************************************************************************)
(* Model of scripts/fpv_energy_scan.py: the scan / confirm control loop    *)
(* and the life cycle of the exclusive radio session.                      *)
(*                                                                         *)
(* Units: frequencies and bandwidths are in MHz (the script multiplies by  *)
(* 1e6; Hz values do not fit the model checker's integers), classifier     *)
(* scores are in tenths (0.9 is 9), levels are in dB.                      *)
(***************************************************************************)
EXTENDS Integers, Sequences, FiniteSets, TLC

(***************************************************************************)
(* Bounds of the model.                                                    *)
(***************************************************************************)
\* how many channels of ALL_CENTERS_MHZ (its lowest ones) the model sweeps
MaxChannels == 3
\* longest classifier output the reduction is checked on, in lines
MaxLines == 6

(***************************************************************************)
(* Program constants.                                                      *)
(***************************************************************************)
RACE_BANDS_ALL_MHZ ==
    << 5865, 5845, 5825, 5805, 5785, 5765, 5745, 5725,
       5733, 5752, 5771, 5790, 5809, 5828, 5847, 5866,
       5705, 5685, 5665, 5645, 5885, 5905, 5925, 5945,
       5740, 5760, 5780, 5800, 5820, 5840, 5860, 5880,
       5658, 5695, 5732, 5769, 5806, 5843, 5880, 5917,
       5333, 5373, 5413, 5453, 5493, 5533, 5573, 5613,
       4990, 5020, 5050, 5080, 5110, 5140, 5170, 5200 >>

EXTRA_59_MHZ == << 5935, 5940, 5943, 5950 >>

AUTO_THRESHOLD == FALSE
THRESHOLD_DB == -90
MIN_BW_MHZ == 4
WARMUP_SWEEPS == 1
THRESHOLD_OFFSET_DB == 6
REOPEN_RETRIES == 5

(***************************************************************************)
(* Pure helpers.                                                           *)
(***************************************************************************)
Range(s) == { s[i] : i \in DOMAIN s }

MinOf(S) == CHOOSE x \in S : \A y \in S : x <= y

RECURSIVE SortedSeq(_)
\* sorted(S) for a set S of integers: ascending, one entry per element
SortedSeq(S) ==
    IF S = {} THEN << >>
    ELSE << MinOf(S) >> \o SortedSeq(S \ { MinOf(S) })

RECURSIVE SortedList(_)
\* sorted(list): ascending, duplicates kept
SortedList(s) ==
    IF s = << >> THEN << >>
    ELSE LET m == MinOf(Range(s))
             i == CHOOSE k \in DOMAIN s : s[k] = m
             rest == [ k \in 1 .. (Len(s) - 1) |-> IF k < i THEN s[k] ELSE s[k + 1] ]
         IN  << m >> \o SortedList(rest)

\* ALL_CENTERS_MHZ = sorted(set(RACE_BANDS_ALL_MHZ + EXTRA_59_MHZ))
ALL_CENTERS_MHZ == SortedSeq(Range(RACE_BANDS_ALL_MHZ \o EXTRA_59_MHZ))

\* the channels the model sweeps: the first MaxChannels of the plan
Plan ==
    SubSeq(ALL_CENTERS_MHZ, 1,
           IF MaxChannels < Len(ALL_CENTERS_MHZ) THEN MaxChannels
           ELSE Len(ALL_CENTERS_MHZ))

\* statistics.median: middle of the sorted data, mean of the two middle ones
\* for an even count (the model's data keep that mean integral)
Median(s) ==
    LET t == SortedList(s)
        n == Len(t)
    IN  IF n % 2 = 1 THEN t[(n + 1) \div 2]
        ELSE (t[n \div 2] + t[n \div 2 + 1]) \div 2

Count(e, s) == Len(SelectSeq(s, LAMBDA x : x = e))

(***************************************************************************)
(* Values.                                                                 *)
(***************************************************************************)
NONE == "None"

\* an InspectorScan object: st is "none" when the variable holds no object
NoSession == [ st |-> "none", thr |-> 0, center |-> 0 ]

\* the detector is built with the static default, not with the argument
NewSessionStaticThreshold(threshold) ==
    [ st |-> "constructed", thr |-> THRESHOLD_DB, center |-> ALL_CENTERS_MHZ[1] ]

\* InspectorScan.__init__: the source is created (the radio handle is taken)
\* and tuned to the first channel of the plan; the flowgraph is not started
NewSession(threshold) ==
    [ st |-> "constructed", thr |-> threshold, center |-> ALL_CENTERS_MHZ[1] ]

Holds(s) == s.st # "none"

\* spectra the probe can report in the warm-up: nothing, or FFT magnitudes
Spectra == { << >>, << -96, -95, -94 >>, << -92, -94, -93 >> }

\* messages of the detection oracle: rows of (frequency offset, bandwidth)
Row(o, b) == [ off |-> o, bw |-> b ]
OracleMessages ==
    { << >>,
      << Row(0, 2), Row(1, 4) >>,
      << Row(0, 4), Row(1, 6) >>,
      << Row(0, 6), Row(1, 6) >> }

\* lines of the classifier's standard output
TextLine == [ kind |-> "text", pal |-> 0, ntsc |-> 0 ]
BadLine == [ kind |-> "badjson", pal |-> 0, ntsc |-> 0 ]
Rec(p, n) == [ kind |-> "record", pal |-> p, ntsc |-> n ]
Outputs ==
    { << >>,
      << Rec(9, 9), TextLine, Rec(9, 9), Rec(2, 1), BadLine, Rec(9, 1), Rec(4, 8) >>,
      << BadLine, Rec(7, 7), Rec(3, 5) >> }

Texts == { "", "unknown command", "Unknown command" }

NoOutcome == [ kind |-> "none", rc |-> 0, text |-> "", out |-> << >> ]
NotFound == [ kind |-> "notfound", rc |-> 0, text |-> "", out |-> << >> ]
\* what subprocess.run can end with once the child was started
ChildOutcomes ==
    { [ kind |-> "timeout", rc |-> 0, text |-> "", out |-> o ] : o \in Outputs }
    \cup { [ kind |-> "exit", rc |-> r, text |-> t, out |-> o ] :
             r \in { 0, 1 }, t \in Texts, o \in Outputs }

Disabled == [ none |-> TRUE, pal |-> 0, ntsc |-> 0 ]
Scores(p, n) == [ none |-> FALSE, pal |-> p, ntsc |-> n ]

VARIABLES
    pc,            \* position of the (single) thread of control
    pub,           \* args.zmq: whether the XPUB socket exists (pub is not None)
    tb,            \* main's tb
    rtb,           \* start_tb_with_retry's local tb
    fresh,         \* the object InspectorScan(...) has built, not yet bound
    attempt,       \* start_tb_with_retry's attempt
    caller,        \* which call of start_tb_with_retry is active
    threshold_db,  \* main's threshold_db
    calSweep,      \* warmup_threshold: the sweep
    calIdx,        \* warmup_threshold: the channel within the sweep
    medians,       \* warmup_threshold: medians
    idx,           \* scan loop: index of mhz in the plan, 0 before the loop
    sweepLog,      \* channels visited so far in the current sweep
    prevSweep,     \* channels visited in the sweep before, in order
    store,         \* msg_dbg of the current session: its latest message
    signals,       \* the report of the current visit
    cand,          \* (confirm_hz, confirm_bw)
    reason,        \* _confirm_disabled_reason
    warnings,      \* number of "confirm disabled" warnings printed
    child,         \* the classifier subprocess: "none" or "running"
    outcome,       \* what subprocess.run ended with in the current call
    result,        \* (pal, ntsc) as returned by run_confirm
    events,        \* what happened since the current visit began
    wire,          \* alerts handed to the socket by send_string in this visit
    mon_sub,       \* main's mon_sub: NONE when setup_monitor_sub failed
    gps,           \* _last_sensor_gps
    polled,        \* what the poll of the current visit received
    cmd_hz         \* run_confirm's center_hz in the current visit, 0 before

vars ==
    << pc, pub, tb, rtb, fresh, attempt, caller, threshold_db, calSweep, calIdx,
       medians, idx, sweepLog, prevSweep, store, signals, cand, reason, warnings,
       child, outcome, result, events, wire, mon_sub, gps, polled, cmd_hz >>

\* number of InspectorScan objects alive, each holding the radio handle
Holders ==
    (IF Holds(tb) THEN 1 ELSE 0) + (IF Holds(rtb) THEN 1 ELSE 0)
    + (IF Holds(fresh) THEN 1 ELSE 0)

NoCand == [ hz |-> 0, bw |-> 0 ]

\* _last_sensor_gps: None, or (lat, lon, alt)
NoFix == [ set |-> FALSE, lat |-> 0, lon |-> 0, alt |-> 0 ]
Fix(la, lo, al) == [ set |-> TRUE, lat |-> la, lon |-> lo, alt |-> al ]

\* a field of the telemetry payload: a number, a text that is no number
\* (or null), or absent
Num(n) == [ t |-> "num", v |-> n ]
Str == [ t |-> "str", v |-> 0 ]
Missing == [ t |-> "missing", v |-> 0 ]

\* what one poll can meet: no socket, nothing to receive, a receive error,
\* a text that is not JSON, JSON that is not an object, a JSON object
Recv(k) == [ kind |-> k, lat |-> Missing, lon |-> Missing, alt |-> Missing ]
Payload(la, lo, al) == [ kind |-> "object", lat |-> la, lon |-> lo, alt |-> al ]
NoPoll == Recv("none")
FeedOutcomes ==
    { Recv("again"), Recv("error"), Recv("text"), Recv("nonobject"),
      Payload(Num(45), Num(-120), Num(100)),
      Payload(Num(90), Num(180), Missing),
      Payload(Num(95), Num(-120), Num(100)),
      Payload(Num(45), Num(-181), Num(100)),
      Payload(Str, Num(-120), Num(100)),
      Payload(Missing, Missing, Missing),
      Payload(Num(45), Num(-120), Str) }

\* main up to the first construction; setup_monitor_sub returns the socket,
\* or None when it could not be set up
Init ==
    /\ pc = "construct0"
    /\ pub \in BOOLEAN
    /\ tb = NoSession
    /\ rtb = NoSession
    /\ fresh = NoSession
    /\ attempt = 0
    /\ caller = "none"
    /\ threshold_db = THRESHOLD_DB
    /\ calSweep = 0
    /\ calIdx = 0
    /\ medians = << >>
    /\ idx = 0
    /\ sweepLog = << >>
    /\ prevSweep = << >>
    /\ store = << >>
    /\ signals = << >>
    /\ cand = NoCand
    /\ reason = NONE
    /\ warnings = 0
    /\ child = "none"
    /\ outcome = NoOutcome
    /\ result = Disabled
    /\ events = << >>
    /\ wire = 0
    /\ mon_sub \in { NONE, "sub" }
    /\ gps = NoFix
    /\ polled = NoPoll
    /\ cmd_hz = 0


Log(e) == events' = Append(events, e)

(***************************************************************************)
(* Start-up: the first session and the warm-up (main, lines 449-466).      *)
(***************************************************************************)
\* tb = InspectorScan(threshold_db, ...)
InitialConstruct ==
    /\ pc = "construct0"
    /\ tb' = NewSession(threshold_db)
    /\ Log("construct")
    /\ pc' = "start0"
    /\ UNCHANGED << pub, mon_sub, gps, polled, cmd_hz, prevSweep, rtb, fresh, attempt, caller, threshold_db, calSweep,
                    calIdx, medians, idx, sweepLog, store, signals, cand, reason,
                    warnings, child, outcome, result, wire >>

\* tb.start(): outside any try, a RuntimeError ends the process
InitialStart ==
    /\ pc = "start0"
    /\ \E ok \in BOOLEAN :
         IF ok
         THEN /\ tb' = [ tb EXCEPT !.st = "started" ]
              /\ Log("start_ok")
              /\ IF WARMUP_SWEEPS > 0 /\ ~AUTO_THRESHOLD
                 THEN /\ pc' = "warmup"
                      /\ calSweep' = 1
                      /\ calIdx' = 1
                 ELSE /\ pc' = "next"
                      /\ UNCHANGED << calSweep, calIdx >>
         ELSE /\ Log("start_fail")
              /\ pc' = "terminated"
              /\ UNCHANGED << tb, calSweep, calIdx >>
    /\ UNCHANGED << pub, mon_sub, gps, polled, cmd_hz, prevSweep, rtb, fresh, attempt, caller, threshold_db, medians, idx,
                    sweepLog, store, signals, cand, reason, warnings, child,
                    outcome, result, wire >>

\* warmup_threshold, one channel: tune, settle, dwell, read the spectrum and
\* record its median when the spectrum is not empty
WarmupVisit ==
    /\ pc = "warmup"
    /\ \E spectrum \in Spectra :
         medians' = IF spectrum # << >> THEN Append(medians, Median(spectrum))
                    ELSE medians
    /\ tb' = [ tb EXCEPT !.center = Plan[calIdx] ]
    /\ IF calIdx < Len(Plan)
       THEN /\ calIdx' = calIdx + 1
            /\ UNCHANGED << calSweep, pc >>
       ELSE IF calSweep < WARMUP_SWEEPS
            THEN /\ calSweep' = calSweep + 1
                 /\ calIdx' = 1
                 /\ UNCHANGED pc
            ELSE /\ pc' = "warmup_done"
                 /\ UNCHANGED << calSweep, calIdx >>
    /\ UNCHANGED << pub, mon_sub, gps, polled, cmd_hz, prevSweep, rtb, fresh, attempt, caller, threshold_db, idx, sweepLog,
                    store, signals, cand, reason, warnings, child, outcome, result,
                    events, wire >>

\* the value warmup_threshold returns
WarmupResult(ms) ==
    IF ms = << >> THEN THRESHOLD_DB ELSE Median(ms) + THRESHOLD_OFFSET_DB

\* threshold_db = warmup_threshold(tb)
WarmupReturn ==
    /\ pc = "warmup_done"
    /\ threshold_db' = WarmupResult(medians)
    /\ medians' = << >>
    /\ calSweep' = 0
    /\ calIdx' = 0
    /\ pc' = "cal_stop"
    /\ UNCHANGED << pub, mon_sub, gps, polled, cmd_hz, prevSweep, tb, rtb, fresh, attempt, caller, idx, sweepLog, store,
                    signals, cand, reason, warnings, child, outcome, result,
                    events, wire >>

\* tb.stop(); tb.wait()
CalStop ==
    /\ pc = "cal_stop"
    /\ tb' = [ tb EXCEPT !.st = "stopped" ]
    /\ Log("stop")
    /\ pc' = "cal_release"
    /\ UNCHANGED << pub, mon_sub, gps, polled, cmd_hz, prevSweep, rtb, fresh, attempt, caller, threshold_db, calSweep,
                    calIdx, medians, idx, sweepLog, store, signals, cand, reason,
                    warnings, child, outcome, result, wire >>

\* tb = None; gc.collect()
CalRelease ==
    /\ pc = "cal_release"
    /\ tb' = NoSession
    /\ store' = << >>
    /\ Log("release")
    /\ pc' = "cal_cooldown"
    /\ UNCHANGED << pub, mon_sub, gps, polled, cmd_hz, prevSweep, rtb, fresh, attempt, caller, threshold_db, calSweep,
                    calIdx, medians, idx, sweepLog, signals, cand, reason,
                    warnings, child, outcome, result, wire >>

\* time.sleep(COOLDOWN_S), then start_tb_with_retry is called
CalCooldown ==
    /\ pc = "cal_cooldown"
    /\ Log("cooldown")
    /\ caller' = "calibration"
    /\ attempt' = 1
    /\ pc' = "retry_construct"
    /\ UNCHANGED << pub, mon_sub, gps, polled, cmd_hz, prevSweep, tb, rtb, fresh, threshold_db, calSweep, calIdx, medians,
                    idx, sweepLog, store, signals, cand, reason, warnings, child,
                    outcome, result, wire >>

(***************************************************************************)
(* start_tb_with_retry (lines 340-351).                                    *)
(***************************************************************************)
\* the right-hand side of tb = InspectorScan(...): the new object is built
\* while the local tb still refers to the object of the failed attempt
RetryConstruct ==
    /\ pc = "retry_construct"
    /\ fresh' = NewSession(threshold_db)
    /\ Log("construct")
    /\ pc' = "retry_bind"
    /\ UNCHANGED << pub, mon_sub, gps, polled, cmd_hz, prevSweep, tb, rtb, attempt, caller, threshold_db, calSweep, calIdx,
                    medians, idx, sweepLog, store, signals, cand, reason, warnings,
                    child, outcome, result, wire >>

\* the assignment: the local tb is rebound, the previous object loses its
\* last reference
RetryBind ==
    /\ pc = "retry_bind"
    /\ rtb' = fresh
    /\ fresh' = NoSession
    /\ pc' = "retry_start"
    /\ UNCHANGED << pub, mon_sub, gps, polled, cmd_hz, prevSweep, tb, attempt, caller, threshold_db, calSweep, calIdx,
                    medians, idx, sweepLog, store, signals, cand, reason, warnings,
                    child, outcome, result, events, wire, mon_sub, gps, polled, cmd_hz >>

\* tb.start(); return tb  /  except RuntimeError
RetryStart ==
    /\ pc = "retry_start"
    /\ \E ok \in BOOLEAN :
         IF ok
         THEN /\ tb' = [ rtb EXCEPT !.st = "started" ]
              /\ rtb' = NoSession
              /\ store' = << >>
              /\ Log("start_ok")
              /\ caller' = "none"
              /\ attempt' = 0
              /\ pc' = "next"
         ELSE /\ Log("start_fail")
              /\ pc' = "retry_stop"
              /\ UNCHANGED << tb, rtb, store, caller, attempt >>
    /\ UNCHANGED << pub, mon_sub, gps, polled, cmd_hz, prevSweep, fresh, threshold_db, calSweep, calIdx, medians, idx,
                    sweepLog, signals, cand, reason, warnings, child, outcome,
                    result, wire >>

\* tb.stop(); tb.wait(); print the warning
RetryFailStop ==
    /\ pc = "retry_stop"
    /\ rtb' = [ rtb EXCEPT !.st = "stopped" ]
    /\ Log("stop")
    /\ pc' = "retry_delay"
    /\ UNCHANGED << pub, mon_sub, gps, polled, cmd_hz, prevSweep, tb, fresh, attempt, caller, threshold_db, calSweep,
                    calIdx, medians, idx, sweepLog, store, signals, cand, reason,
                    warnings, child, outcome, result, wire >>

\* the for loop makes one attempt too many
OneAttemptTooMany(a) == a <= REOPEN_RETRIES

\* whether the for loop has another attempt after this one
MoreAttempts(a) == a < REOPEN_RETRIES

\* time.sleep(REOPEN_DELAY_S), then the next attempt or the end of the loop
RetryDelay ==
    /\ pc = "retry_delay"
    /\ Log("delay")
    /\ IF MoreAttempts(attempt)
       THEN /\ attempt' = attempt + 1
            /\ pc' = "retry_construct"
       ELSE /\ pc' = "retry_raise"
            /\ UNCHANGED attempt
    /\ UNCHANGED << pub, mon_sub, gps, polled, cmd_hz, prevSweep, tb, rtb, fresh, caller, threshold_db, calSweep, calIdx,
                    medians, idx, sweepLog, store, signals, cand, reason, warnings,
                    child, outcome, result, wire >>

\* raise RuntimeError("failed to reopen SDR after retries"): no handler in
\* main catches it (the finally clause finds tb is None), the process ends
RetryRaise ==
    /\ pc = "retry_raise"
    /\ Log("raise")
    /\ pc' = "terminated"
    /\ UNCHANGED << pub, mon_sub, gps, polled, cmd_hz, prevSweep, tb, rtb, fresh, attempt, caller, threshold_db, calSweep,
                    calIdx, medians, idx, sweepLog, store, signals, cand, reason,
                    warnings, child, outcome, result, wire >>

(***************************************************************************)
(* The detector bridge (lines 138-166).                                    *)
(***************************************************************************)
\* what msg_dbg can hold after the oracle ran for a while tuned to center:
\* what it held, or a newer message emitted at that centre frequency
AfterOracle(st, center) ==
    { st } \cup { << [ rows |-> m, ch |-> center ] >> : m \in OracleMessages }

\* InspectorScan.get_latest_map: None (the empty sequence) with no message,
\* else the rows of the last one
GetLatestMap(st) == IF st = << >> THEN << >> ELSE st[Len(st)].rows

\* parse_rf_map: the rows of at least the minimum bandwidth, as absolute
\* frequencies, in the order of the message
ParseRfMap(msg, center_hz) ==
    LET rows == SelectSeq(msg, LAMBDA r : r.bw >= MIN_BW_MHZ)
    IN  [ i \in 1 .. Len(rows) |-> [ hz |-> center_hz + rows[i].off, bw |-> rows[i].bw ] ]

\* the first pair of the report, whatever its bandwidth
FirstOfReport(sigs) == sigs[1]

\* max(signals, key=lambda s: s[1]): the first of the widest
MaxByBw(sigs) ==
    sigs[CHOOSE i \in DOMAIN sigs :
            /\ \A j \in DOMAIN sigs : sigs[j].bw <= sigs[i].bw
            /\ \A j \in 1 .. (i - 1) : sigs[j].bw < sigs[i].bw]

(***************************************************************************)
(* The confirmation engine (lines 93-100, 275-337).                        *)
(***************************************************************************)
\* _disable_confirm without its effect on the global: the warning is printed,
\* the reason is lost
DisableConfirmLosesReason(r) ==
    [ reason |-> reason, warnings |-> warnings + 1 ]

\* _disable_confirm(reason): the new values of the reason and of the number
\* of warnings printed
DisableConfirm(r) ==
    IF reason = NONE
    THEN [ reason |-> r, warnings |-> warnings + 1 ]
    ELSE [ reason |-> reason, warnings |-> warnings ]

\* run_confirm never short-circuits
NeverShortCircuit(r) == FALSE

\* the test at the head of run_confirm
ShortCircuit(r) == r # NONE

\* subprocess.run leaves a child that timed out running
ChildLeftAfterTimeout(o) == IF o.kind = "timeout" THEN "running" ELSE "none"

\* the child once subprocess.run has returned or raised: it has exited, or
\* was killed and reaped at the timeout
ChildAfterRun(o) == "none"

HasUnknownCommand(text) == text \in { "Unknown command", "unknown command" }

\* the breaker trips on every non-zero exit
DisableOnAnyFailure(o) ==
    IF o.kind = "notfound" THEN "suscli not found in PATH"
    ELSE IF o.kind = "exit" /\ o.rc # 0
         THEN "suscli fpvdet command not available"
         ELSE NONE

\* the reason run_confirm disables confirmation for, NONE when it does not
DisableSignal(o) ==
    IF o.kind = "notfound" THEN "suscli not found in PATH"
    ELSE IF o.kind = "exit" /\ o.rc # 0 /\ HasUnknownCommand(o.text)
         THEN "suscli fpvdet command not available"
         ELSE NONE

RECURSIVE Reduce(_, _, _, _, _)
\* the loop over output.splitlines(): i is the next line, skip the header
\* lines still to skip, mp and mn the maxima so far
Reduce(lines, i, skip, mp, mn) ==
    IF i > Len(lines) THEN Scores(mp, mn)
    ELSE LET l == lines[i]
         IN  IF l.kind = "text" THEN Reduce(lines, i + 1, skip, mp, mn)
             ELSE IF skip > 0 THEN Reduce(lines, i + 1, skip - 1, mp, mn)
             ELSE IF l.kind = "badjson" THEN Reduce(lines, i + 1, skip, mp, mn)
             ELSE Reduce(lines, i + 1, skip,
                         IF l.pal > mp THEN l.pal ELSE mp,
                         IF l.ntsc > mn THEN l.ntsc ELSE mn)

SKIP_LINES == 2

\* the reduction takes the header lines for records
BestOfRunNoHeader(lines) == Reduce(lines, 1, 0, 0, 0)

\* lines 318-337: max_pal, max_ntsc over the output
BestOfRun(lines) == Reduce(lines, 1, SKIP_LINES, 0, 0)

(***************************************************************************)
(* The scan loop (main, lines 467-518).                                    *)
(***************************************************************************)
\* the for loop repeats the channel it has just visited
NextIndexRepeats(i) == IF i = 0 THEN 1 ELSE i

\* for mhz in ALL_CENTERS_MHZ inside while True: the next index, the first
\* one again after the last
NextIndex(i) == IF i >= Len(Plan) THEN 1 ELSE i + 1

\* the for loop yields the next channel: a new visit begins
NextChannel ==
    /\ pc = "next"
    /\ idx' = NextIndex(idx)
    /\ sweepLog' = Append(IF idx' = 1 THEN << >> ELSE sweepLog,
                          [ mhz |-> Plan[idx'], detected |-> FALSE ])
    /\ prevSweep' = IF idx' = 1 /\ idx > 0
                    THEN [ i \in DOMAIN sweepLog |-> sweepLog[i].mhz ]
                    ELSE prevSweep
    /\ events' = << >>
    /\ wire' = 0
    /\ signals' = << >>
    /\ cand' = NoCand
    /\ result' = Disabled
    /\ cmd_hz' = 0
    /\ pc' = "poll"
    /\ UNCHANGED << pub, mon_sub, gps, polled, tb, rtb, fresh, attempt, caller, threshold_db, calSweep,
                    calIdx, medians, store, reason, warnings, child, outcome >>

\* is_valid_latlon
IsValidLatLon(lat, lon) ==
    /\ lat.t = "num"
    /\ lon.t = "num"
    /\ -90 <= lat.v /\ lat.v <= 90
    /\ -180 <= lon.v /\ lon.v <= 180

\* poll_monitor_for_gps: the new _last_sensor_gps and whether an exception
\* leaves the function. payload.get fails on JSON that is no object,
\* float(alt) on an alt that is no number
PollMonitor(g, m) ==
    IF m.kind \in { "nosocket", "again", "error", "text" }
    THEN [ gps |-> g, raised |-> FALSE ]
    ELSE IF m.kind = "nonobject"
    THEN [ gps |-> g, raised |-> TRUE ]
    ELSE IF ~IsValidLatLon(m.lat, m.lon)
    THEN [ gps |-> g, raised |-> FALSE ]
    ELSE IF m.alt.t = "str"
    THEN [ gps |-> g, raised |-> TRUE ]
    ELSE [ gps |-> Fix(m.lat.v, m.lon.v, IF m.alt.t = "missing" THEN 0 ELSE m.alt.v),
           raised |-> FALSE ]

\* the finally clause without its test: stop() whatever tb is
TeardownUnguarded(s) == [ s EXCEPT !.st = "stopped" ]

\* the finally clause of main: tb.stop(); tb.wait() when tb is not None
Teardown(s) == IF Holds(s) THEN [ s EXCEPT !.st = "stopped" ] ELSE s

\* poll_monitor_for_gps(mon_sub) at the head of the visit; an exception that
\* leaves it passes the finally clause and ends the process
Poll ==
    /\ pc = "poll"
    /\ \E m \in (IF mon_sub = NONE THEN { Recv("nosocket") } ELSE FeedOutcomes) :
         /\ polled' = m
         /\ gps' = PollMonitor(gps, m).gps
         /\ IF PollMonitor(gps, m).raised
            THEN /\ tb' = Teardown(tb)
                 /\ events' = events \o << "poll_raise", "finally" >>
                 /\ pc' = "crashed"
            ELSE /\ pc' = "tune"
                 /\ UNCHANGED << tb, events >>
    /\ UNCHANGED << pub, mon_sub, cmd_hz, rtb, fresh, attempt, caller, threshold_db,
                    calSweep, calIdx, medians, idx, sweepLog, prevSweep, store,
                    signals, cand, reason, warnings, child, outcome, result, wire >>

\* tb.set_center(center_hz). The oracle has been running at the previous
\* centre frequency until the retune
VisitTune ==
    /\ pc = "tune"
    /\ store' \in AfterOracle(store, tb.center)
    /\ tb' = [ tb EXCEPT !.center = Plan[idx] ]
    /\ polled' = NoPoll
    /\ Log("tune")
    /\ pc' = "dwell"
    /\ UNCHANGED << pub, mon_sub, gps, cmd_hz, prevSweep, rtb, fresh, attempt, caller, threshold_db, calSweep,
                    calIdx, medians, idx, sweepLog, signals, cand, reason,
                    warnings, child, outcome, result, wire >>

\* time.sleep(SETTLE_S); time.sleep(DWELL_S): the oracle runs meanwhile
VisitDwell ==
    /\ pc = "dwell"
    /\ store' \in AfterOracle(store, tb.center)
    /\ pc' = "read"
    /\ UNCHANGED << pub, mon_sub, gps, polled, cmd_hz, prevSweep, tb, rtb, fresh, attempt, caller, threshold_db, calSweep,
                    calIdx, medians, idx, sweepLog, signals, cand, reason,
                    warnings, child, outcome, result, events, wire >>

\* a detection sends the loop straight to the release of the radio
AfterDetectionNoEnergy == "det_stop"

\* where the loop goes with a non-empty report
AfterDetection == "pub_energy"

\* msg = tb.get_latest_map(); signals = parse_rf_map(msg, center_hz); the
\* candidate is chosen when there are signals
VisitRead ==
    /\ pc = "read"
    /\ signals' = ParseRfMap(GetLatestMap(store), Plan[idx])
    /\ Log("read")
    /\ IF signals' # << >>
       THEN /\ cand' = MaxByBw(signals')
            /\ sweepLog' = [ sweepLog EXCEPT ![Len(sweepLog)].detected = TRUE ]
            /\ pc' = AfterDetection
       ELSE /\ pc' = "next"
            /\ UNCHANGED << cand, sweepLog >>
    /\ UNCHANGED << pub, mon_sub, gps, polled, cmd_hz, prevSweep, tb, rtb, fresh, attempt, caller, threshold_db, calSweep,
                    calIdx, medians, idx, store, reason, warnings, child, outcome,
                    result, wire >>

\* publish_alert: the alert is built and handed to send_string, whose
\* exception, if any, is swallowed. The new values of events and wire
PublishAlert(source) ==
    { [ events |-> Append(events, source), wire |-> w ] : w \in { wire, wire + 1 } }

\* if pub is not None: publish_alert(pub, ..., "energy")
PublishEnergy ==
    /\ pc = "pub_energy"
    /\ IF pub
       THEN \E p \in PublishAlert("energy") :
                /\ events' = p.events
                /\ wire' = p.wire
       ELSE UNCHANGED << events, wire >>
    /\ pc' = "det_stop"
    /\ UNCHANGED << pub, mon_sub, gps, polled, cmd_hz, prevSweep, tb, rtb, fresh, attempt, caller, threshold_db, calSweep,
                    calIdx, medians, idx, sweepLog, store, signals, cand, reason,
                    warnings, child, outcome, result >>

\* tb.stop(); tb.wait()
DetStop ==
    /\ pc = "det_stop"
    /\ tb' = [ tb EXCEPT !.st = "stopped" ]
    /\ Log("stop")
    /\ pc' = "det_release"
    /\ UNCHANGED << pub, mon_sub, gps, polled, cmd_hz, prevSweep, rtb, fresh, attempt, caller, threshold_db, calSweep,
                    calIdx, medians, idx, sweepLog, store, signals, cand, reason,
                    warnings, child, outcome, result, wire >>

\* the session is stopped but main keeps its reference to it
KeepsReference(s) == s

\* tb = None; gc.collect(): what main's tb holds afterwards
Released(s) == NoSession

DetRelease ==
    /\ pc = "det_release"
    /\ tb' = Released(tb)
    /\ store' = << >>
    /\ Log("release")
    /\ pc' = "det_cooldown"
    /\ UNCHANGED << pub, mon_sub, gps, polled, cmd_hz, prevSweep, rtb, fresh, attempt, caller, threshold_db, calSweep,
                    calIdx, medians, idx, sweepLog, signals, cand, reason,
                    warnings, child, outcome, result, wire >>

\* the classifier is called straight after the release, with no wait
DetCooldownSkipped ==
    /\ pc = "det_cooldown"
    /\ pc' = "confirm_enter"
    /\ UNCHANGED << pub, mon_sub, gps, polled, cmd_hz, prevSweep, tb, rtb, fresh, attempt, caller, threshold_db, calSweep,
                    calIdx, medians, idx, sweepLog, store, signals, cand, reason,
                    warnings, child, outcome, result, wire, events >>

\* time.sleep(COOLDOWN_S)
DetCooldown ==
    /\ pc = "det_cooldown"
    /\ Log("cooldown")
    /\ pc' = "confirm_enter"
    /\ UNCHANGED << pub, mon_sub, gps, polled, cmd_hz, prevSweep, tb, rtb, fresh, attempt, caller, threshold_db, calSweep,
                    calIdx, medians, idx, sweepLog, store, signals, cand, reason,
                    warnings, child, outcome, result, wire >>

\* run_confirm(confirm_hz) is called: it returns at once when confirmation
\* is disabled, else it builds the command line
ConfirmEnter ==
    /\ pc = "confirm_enter"
    /\ outcome' = NoOutcome
    /\ cmd_hz' = cand.hz
    /\ IF ShortCircuit(reason)
       THEN /\ result' = Disabled
            /\ events' = events \o << "call", "return" >>
            /\ pc' = "report"
       ELSE /\ Log("call")
            /\ pc' = "confirm_run"
            /\ UNCHANGED result
    /\ UNCHANGED << pub, mon_sub, gps, polled, prevSweep, tb, rtb, fresh, attempt, caller, threshold_db, calSweep,
                    calIdx, medians, idx, sweepLog, store, signals, cand, reason,
                    warnings, child, wire >>

\* subprocess.run(cmd, ...): the binary is not found, or the child starts
ConfirmRun ==
    /\ pc = "confirm_run"
    /\ Log("run")
    /\ \/ /\ outcome' = NotFound
          /\ pc' = "confirm_eval"
          /\ UNCHANGED child
       \/ /\ child' = "running"
          /\ pc' = "confirm_wait"
          /\ UNCHANGED outcome
    /\ UNCHANGED << pub, mon_sub, gps, polled, cmd_hz, prevSweep, tb, rtb, fresh, attempt, caller, threshold_db, calSweep,
                    calIdx, medians, idx, sweepLog, store, signals, cand, reason,
                    warnings, result, wire >>

\* subprocess.run returns (the child exited) or raises TimeoutExpired
ChildEnds ==
    /\ pc = "confirm_wait"
    /\ \E o \in ChildOutcomes :
         /\ outcome' = o
         /\ child' = ChildAfterRun(o)
    /\ pc' = "confirm_eval"
    /\ UNCHANGED << pub, mon_sub, gps, polled, cmd_hz, prevSweep, tb, rtb, fresh, attempt, caller, threshold_db, calSweep,
                    calIdx, medians, idx, sweepLog, store, signals, cand, reason,
                    warnings, result, events, wire >>

\* lines 298-337: the handlers, the unknown-command test, the reduction of
\* the output, the return
ConfirmEval ==
    /\ pc = "confirm_eval"
    /\ IF DisableSignal(outcome) # NONE
       THEN /\ reason' = DisableConfirm(DisableSignal(outcome)).reason
            /\ warnings' = DisableConfirm(DisableSignal(outcome)).warnings
            /\ result' = Disabled
       ELSE /\ result' = BestOfRun(outcome.out)
            /\ UNCHANGED << reason, warnings >>
    /\ Log("return")
    /\ pc' = "report"
    /\ UNCHANGED << pub, mon_sub, gps, polled, cmd_hz, prevSweep, tb, rtb, fresh, attempt, caller, threshold_db, calSweep,
                    calIdx, medians, idx, sweepLog, store, signals, cand, child,
                    outcome, wire >>

\* the confirm alert is published whatever run_confirm returned
AlwaysReportsScores(r) == TRUE

\* pal is None or ntsc is None: false when run_confirm returned scores
HasScores(r) == ~r.none

\* lines 494-508: "skipped", or the scores and, with publishing enabled,
\* publish_alert(pub, ..., "confirm")
ConfirmReport ==
    /\ pc = "report"
    /\ IF HasScores(result)
       THEN IF pub
            THEN \E p \in PublishAlert("confirm") :
                     /\ events' = p.events
                     /\ wire' = p.wire
            ELSE /\ Log("scores")
                 /\ UNCHANGED wire
       ELSE /\ Log("skipped")
            /\ UNCHANGED wire
    /\ pc' = "reacq_cooldown"
    /\ UNCHANGED << pub, mon_sub, gps, polled, cmd_hz, prevSweep, tb, rtb, fresh, attempt, caller, threshold_db, calSweep,
                    calIdx, medians, idx, sweepLog, store, signals, cand, reason,
                    warnings, child, outcome, result >>

\* time.sleep(COOLDOWN_S), then start_tb_with_retry is called
ReacqCooldown ==
    /\ pc = "reacq_cooldown"
    /\ Log("cooldown")
    /\ outcome' = NoOutcome
    /\ caller' = "loop"
    /\ attempt' = 1
    /\ pc' = "retry_construct"
    /\ UNCHANGED << pub, mon_sub, gps, polled, cmd_hz, prevSweep, tb, rtb, fresh, threshold_db, calSweep, calIdx, medians,
                    idx, sweepLog, store, signals, cand, reason, warnings, child,
                    result, wire >>

Next ==
    \/ InitialConstruct
    \/ InitialStart
    \/ WarmupVisit
    \/ WarmupReturn
    \/ CalStop
    \/ CalRelease
    \/ CalCooldown
    \/ RetryConstruct
    \/ RetryBind
    \/ RetryStart
    \/ RetryFailStop
    \/ RetryDelay
    \/ RetryRaise
    \/ NextChannel
    \/ Poll
    \/ VisitTune
    \/ VisitDwell
    \/ VisitRead
    \/ PublishEnergy
    \/ DetStop
    \/ DetRelease
    \/ DetCooldown
    \/ ConfirmEnter
    \/ ConfirmRun
    \/ ChildEnds
    \/ ConfirmEval
    \/ ConfirmReport
    \/ ReacqCooldown

Spec == Init /\ [][Next]_vars


(***************************************************************************)
(* Properties.                                                             *)
(***************************************************************************)
ConfirmPcs == { "confirm_enter", "confirm_run", "confirm_wait", "confirm_eval" }

RetryPcs ==
    { "retry_construct", "retry_bind", "retry_start", "retry_stop", "retry_delay",
      "retry_raise" }

Before(a, b) ==
    \A i \in DOMAIN events : events[i] = b => \E j \in 1 .. (i - 1) : events[j] = a

\* C1: the radio is held by the scanner's session or by the classifier
\* subprocess, never by both: while run_confirm is active no InspectorScan
\* object is alive (the session of the visit was stopped and released before
\* the call), and while start_tb_with_retry is active no classifier runs,
\* also after a timeout.
RadioExclusive ==
    /\ ~(child = "running" /\ Holders > 0)
    /\ pc \in ConfirmPcs =>
         /\ Holders = 0
         /\ Count("stop", events) = 1
         /\ Count("release", events) = 1
    /\ Before("stop", "release")
    /\ Before("release", "call")
    /\ pc \in RetryPcs => child = "none"

\* C1, witness: the classifier has timed out, run_confirm has returned and
\* the reopen is about to begin with no classifier left and no session held.
RadioExclusiveWitness ==
    /\ pc = "reacq_cooldown"
    /\ outcome.kind = "timeout"
    /\ child = "none"
    /\ Holders = 0

\* C2: at most one InspectorScan object holding the radio is alive at any
\* time, also between the attempts of start_tb_with_retry.
AtMostOneSession == Holders <= 1

\* C3: once the breaker is set, no step starts a classifier subprocess, and
\* every call of run_confirm returns Disabled at once.
BreakerShortCircuits ==
    [][reason # NONE =>
         /\ child' = "none"
         /\ Count("run", events') <= Count("run", events)
         /\ (pc = "confirm_enter" => pc' = "report" /\ result' = Disabled)]_vars

\* C3, witness: with the breaker set by a missing binary, a later call of
\* run_confirm has returned Disabled without running anything.
BreakerShortCircuitsWitness ==
    /\ reason = "suscli not found in PATH"
    /\ pc = "report"
    /\ Count("call", events) = 1
    /\ Count("run", events) = 0
    /\ result = Disabled

\* C4: the breaker reason starts unset, is never cleared or overwritten once
\* set, and the warning has been printed exactly once when it is set and
\* never while it is unset.
BreakerWriteOnce ==
    /\ reason = NONE
    /\ [](warnings = IF reason = NONE THEN 0 ELSE 1)
    /\ [][reason # NONE => reason' = reason /\ warnings' = warnings]_vars

\* C4, witness: the breaker was set by an unknown command, a whole later
\* visit with a confirmation call has passed, one warning was printed.
BreakerWriteOnceWitness ==
    /\ reason = "suscli fpvdet command not available"
    /\ warnings = 1
    /\ pc = "next"
    /\ Count("call", events) = 1
    /\ Count("run", events) = 0

IsDisableSignal(o) ==
    \/ o.kind = "notfound"
    \/ o.kind = "exit" /\ o.rc # 0 /\ o.text \in { "unknown command", "Unknown command" }

\* C5: the breaker reason changes only in run_confirm and only when the
\* binary was not found or the classifier exited non-zero with "unknown
\* command" in its output.
BreakerOnlyBySignals ==
    [][reason' # reason => pc = "confirm_eval" /\ IsDisableSignal(outcome)]_vars

\* C5, witness: the classifier printed "unknown command" but exited with
\* status zero, and run_confirm has returned with the breaker unset.
BreakerOnlyBySignalsWitness ==
    /\ pc = "report"
    /\ outcome.kind = "exit"
    /\ outcome.rc = 0
    /\ outcome.text = "unknown command"
    /\ reason = NONE

PlainFailure(o) == o.kind = "exit" /\ o.rc # 0 /\ ~IsDisableSignal(o)

\* C6, as claimed: after a non-zero exit without a disable signal
\* run_confirm returns no scores and no confirm alert is published.
FailedAttemptReturnsNoScores ==
    (pc \in { "report", "reacq_cooldown" } /\ PlainFailure(outcome)) =>
        /\ result.none
        /\ Count("confirm", events) = 0

\* C6, amended: after a non-zero exit without a disable signal run_confirm
\* returns the scores reduced from the captured output, (0, 0) when no record
\* was decoded, the breaker stays unset, and with publishing enabled the
\* confirm alert with those scores is published.
FailedAttemptReturnsParsedScores ==
    (pc \in { "report", "reacq_cooldown" } /\ PlainFailure(outcome)) =>
        /\ ~result.none
        /\ outcome.out = << >> => (result.pal = 0 /\ result.ntsc = 0)
        /\ outcome.out = << BadLine, Rec(7, 7), Rec(3, 5) >> =>
             (result.pal = 3 /\ result.ntsc = 5)
        /\ reason = NONE
        /\ pc = "reacq_cooldown" =>
             Count("confirm", events) = IF pub THEN 1 ELSE 0

\* C6, witness: a plain failure with no output, reported as scores (0, 0) in
\* a confirm alert.
FailedAttemptWitness ==
    /\ pc = "reacq_cooldown"
    /\ PlainFailure(outcome)
    /\ outcome.out = << >>
    /\ pub
    /\ result = Scores(0, 0)
    /\ Count("confirm", events) = 1

\* C7: in a visit with publishing enabled, the energy alert is published
\* before the session is stopped, before run_confirm is called and before
\* any classifier starts; a confirm alert comes after run_confirm returned.
EnergyBeforeRelease ==
    (idx > 0 /\ pub) =>
        /\ Before("energy", "stop")
        /\ Before("energy", "call")
        /\ Before("energy", "run")
        /\ Before("return", "confirm")
        /\ child = "running" => Count("energy", events) = 1

\* C7, witness: a visit that published the energy alert, ran the classifier
\* and published the confirm alert.
EnergyBeforeReleaseWitness ==
    /\ idx > 0
    /\ pub
    /\ pc = "reacq_cooldown"
    /\ Count("run", events) = 1
    /\ Count("energy", events) = 1
    /\ Count("confirm", events) = 1

AfterReportPcs == RetryPcs \cup { "reacq_cooldown", "next", "terminated" }

\* C8: per visit, publish_alert is called at most once per stage and never
\* with publishing disabled; an empty report gives no alert; a non-empty one
\* gives exactly one energy alert and a confirm alert exactly when
\* run_confirm returned scores; without publishing run_confirm is still called.
AlertsOncePerEvent ==
    idx > 0 =>
        /\ Count("energy", events) <= 1
        /\ Count("confirm", events) <= 1
        /\ wire <= Count("energy", events) + Count("confirm", events)
        /\ ~pub => (Count("energy", events) = 0 /\ Count("confirm", events) = 0)
        /\ signals = << >> =>
             (Count("energy", events) = 0 /\ Count("confirm", events) = 0)
        /\ (pub /\ signals # << >> /\ pc # "pub_energy") => Count("energy", events) = 1
        /\ (pub /\ signals # << >> /\ pc \in AfterReportPcs) =>
             Count("confirm", events) = IF result.none THEN 0 ELSE 1
        /\ (signals # << >> /\ pc \in AfterReportPcs) => Count("call", events) = 1

\* C8, witness: a finished visit with a detection and confirmation disabled:
\* one energy alert, no confirm alert.
AlertsOncePerEventWitness ==
    /\ idx > 0
    /\ pub
    /\ pc = "next"
    /\ signals # << >>
    /\ result = Disabled
    /\ Count("energy", events) = 1
    /\ Count("confirm", events) = 0

\* the plan is the union of the two tables, ascending, each frequency once
CentersSortedOnce ==
    /\ \A i \in 1 .. (Len(ALL_CENTERS_MHZ) - 1) :
         ALL_CENTERS_MHZ[i] < ALL_CENTERS_MHZ[i + 1]
    /\ Range(ALL_CENTERS_MHZ) = Range(RACE_BANDS_ALL_MHZ) \cup Range(EXTRA_59_MHZ)

\* C9: the plan is strictly ascending and holds exactly the frequencies of
\* the band tables; the channels visited in the current sweep are the first
\* ones of the plan in order, one visit each, whatever was detected on the
\* way, and a completed sweep visited the whole plan.
SweepInOrder ==
    /\ CentersSortedOnce
    /\ Len(sweepLog) = idx
    /\ \A i \in DOMAIN sweepLog : sweepLog[i].mhz = Plan[i]
    /\ prevSweep \in { << >>, Plan }
    /\ pc \in { "dwell", "read" } => tb.center = Plan[idx]

\* C9, witness: in a sweep after the first one, a detection on the second
\* channel was followed by close, confirm and reopen, and the third channel
\* is being visited.
SweepInOrderWitness ==
    /\ prevSweep = Plan
    /\ Len(sweepLog) = 3
    /\ sweepLog[2].detected
    /\ pc = "dwell"

FailsInOpen ==
    LET last == CHOOSE i \in 0 .. Len(events) :
                    /\ i > 0 => events[i] = "cooldown"
                    /\ \A j \in (i + 1) .. Len(events) : events[j] # "cooldown"
    IN  Cardinality({ j \in (last + 1) .. Len(events) : events[j] = "start_fail" })

\* C10, as claimed: the process ends on an open failure only after
\* REOPEN_RETRIES failed attempts.
EveryOpenRetries ==
    pc = "terminated" => Count("start_fail", events) = REOPEN_RETRIES

\* C10, amended: every reopen by start_tb_with_retry (after the calibration
\* and after each confirmation) makes at most REOPEN_RETRIES attempts with a
\* delay before each further one and ends the process when all of them
\* failed; the first open at start-up is attempted once and its failure ends
\* the process at once; nothing happens after the process has ended.
ReopenRetriesBounded ==
    /\ [](/\ attempt <= REOPEN_RETRIES
          /\ pc \in { "retry_construct", "retry_bind", "retry_start" } =>
               FailsInOpen = attempt - 1
          /\ pc \in { "retry_stop", "retry_delay", "retry_raise" } =>
               FailsInOpen = attempt
          /\ \A i \in DOMAIN events :
               (events[i] = "construct" /\ i > 1) =>
                   events[i - 1] \in { "cooldown", "delay" }
          /\ pc = "terminated" =>
               IF caller = "none"
               THEN events = << "construct", "start_fail" >>
               ELSE attempt = REOPEN_RETRIES /\ FailsInOpen = REOPEN_RETRIES)
    /\ [][pc # "terminated"]_vars

\* C10, witness: a reopen after a confirmation failed REOPEN_RETRIES times
\* and the process has ended.
ReopenRetriesWitness ==
    /\ pc = "terminated"
    /\ caller = "loop"
    /\ FailsInOpen = REOPEN_RETRIES
    /\ Count("delay", events) = REOPEN_RETRIES

\* ---------------------------------------------------------------------
\* External interruption

\* positions of main inside the try statement: the scan loop, the detection
\* cycle and the reopen called from the loop; start-up, calibration and the
\* reopen after the calibration run before the try is entered
TryPcs ==
    { "next", "poll", "tune", "dwell", "read", "pub_energy", "det_stop",
      "det_release", "det_cooldown", "report", "reacq_cooldown" } \cup ConfirmPcs

InTry == pc \in TryPcs \/ (pc \in RetryPcs /\ caller = "loop")

EndedPcs == { "terminated", "crashed", "interrupted" }

\* KeyboardInterrupt raised at the current position. Inside the try it is
\* caught and the finally clause stops the session main holds; elsewhere it
\* ends the process with nothing in between. subprocess.run kills and reaps
\* a running child before the exception leaves it
Interrupt ==
    /\ pc \notin EndedPcs
    /\ tb' = IF InTry THEN Teardown(tb) ELSE tb
    /\ child' = "none"
    /\ Log("interrupt")
    /\ pc' = "interrupted"
    /\ UNCHANGED << pub, mon_sub, gps, polled, cmd_hz, rtb, fresh, attempt, caller,
                    threshold_db, calSweep, calIdx, medians, idx, sweepLog,
                    prevSweep, store, signals, cand, reason, warnings, outcome,
                    result, wire >>

NextInt == Next \/ Interrupt

SpecInt == Init /\ [][NextInt]_vars

\* C11: an interruption arriving in any state ends with the hardware session
\* closed if it was open, and no alert is published after it.
InterruptClosesSession ==
    pc = "interrupted" => tb.st # "started" /\ rtb.st # "started"

\* ---------------------------------------------------------------------
\* Telemetry

\* C12: the stored location is unset or a fix inside the latitude and
\* longitude ranges; a poll that receives valid lat/lon replaces it with
\* that fix, any other poll leaves it as it was, nothing else touches it,
\* and once set it stays set.
LocationMostRecentValid ==
    [][ /\ gps'.set => /\ -90 <= gps'.lat /\ gps'.lat <= 90
                       /\ -180 <= gps'.lon /\ gps'.lon <= 180
        /\ gps.set => gps'.set
        /\ IF /\ pc = "poll"
              /\ polled'.kind = "object"
              /\ IsValidLatLon(polled'.lat, polled'.lon)
           THEN gps'.set /\ gps'.lat = polled'.lat.v /\ gps'.lon = polled'.lon.v
           ELSE gps' = gps ]_vars

\* C13: whatever the poll of a visit receives, poll_monitor_for_gps returns
\* and the loop goes on to tune the channel.
PollNeverInterrupts == polled.kind # "none" => pc = "tune"

\* ---------------------------------------------------------------------
\* The reduction of the classifier output, on its own

\* the lines an output is made of: free text, a line that begins like a
\* record and does not decode, records with (pal, ntsc) in tenths
LineKinds == { TextLine, BadLine, Rec(2, 1), Rec(9, 1), Rec(4, 8) }

RECURSIVE LinesUpTo(_)
LinesUpTo(n) ==
    IF n = 0 THEN { << >> }
    ELSE LinesUpTo(n - 1) \cup
         { Append(s, l) : s \in { t \in LinesUpTo(n - 1) : Len(t) = n - 1 },
                          l \in LineKinds }

\* run_confirm has the output of a classifier run in hand (line 318)
InitReduce ==
    /\ pc = "reduce"
    /\ \E o \in LinesUpTo(MaxLines), k \in { "exit", "timeout" } :
         outcome = [ kind |-> k, rc |-> 0, text |-> "", out |-> o ]
    /\ pub \in BOOLEAN
    /\ tb = NoSession /\ rtb = NoSession /\ fresh = NoSession
    /\ attempt = 0 /\ caller = "none"
    /\ threshold_db = THRESHOLD_DB
    /\ calSweep = 0 /\ calIdx = 0 /\ medians = << >>
    /\ idx = 0 /\ sweepLog = << >> /\ prevSweep = << >>
    /\ store = << >> /\ signals = << >> /\ cand = NoCand
    /\ reason = NONE /\ warnings = 0 /\ child = "none"
    /\ result = Disabled
    /\ events = << >> /\ wire = 0
    /\ mon_sub = NONE /\ gps = NoFix /\ polled = NoPoll /\ cmd_hz = 0

\* lines 318-337 of run_confirm, from the output to the returned pair
ReduceOutput ==
    /\ pc = "reduce"
    /\ result' = BestOfRun(outcome.out)
    /\ pc' = "reduced"
    /\ UNCHANGED << pub, mon_sub, gps, polled, cmd_hz, tb, rtb, fresh, attempt, caller,
                    threshold_db, calSweep, calIdx, medians, idx, sweepLog,
                    prevSweep, store, signals, cand, reason, warnings, child,
                    outcome, events, wire >>

NextReduce == ReduceOutput

SpecReduce == InitReduce /\ [][NextReduce]_vars

\* the positions of the lines that begin like a record
Structured(lines) == { i \in DOMAIN lines : lines[i].kind # "text" }

\* the records after the header: decoded lines with at least SKIP_LINES
\* structured lines before them
Remaining(lines) ==
    { i \in DOMAIN lines :
        /\ lines[i].kind = "record"
        /\ Cardinality({ j \in Structured(lines) : j < i }) >= SKIP_LINES }

MaxOf(S) == CHOOSE m \in S : \A x \in S : x <= m

SoleWidestCandidate ==
    /\ signals = << >> => cand = NoCand /\ cmd_hz = 0 /\ Count("call", events) = 0
    /\ signals # << >> =>
         /\ cand \in Range(signals)
         /\ \A s \in Range(signals) : MIN_BW_MHZ <= s.bw /\ s.bw <= cand.bw
         /\ Count("call", events) <= 1
         /\ cmd_hz = (IF Count("call", events) = 1 THEN cand.hz ELSE 0)
         /\ pc \in AfterReportPcs \cup { "report" } => Count("call", events) = 1

\* C15, witness: a report of two pairs whose second is the wider one has
\* been confirmed on the second pair's frequency.
SoleWidestCandidateWitness ==
    /\ pc = "report"
    /\ Len(signals) = 2
    /\ signals[1].bw < signals[2].bw
    /\ signals[1].hz # signals[2].hz
    /\ cand = signals[2]
    /\ cmd_hz = signals[2].hz
    /\ Count("call", events) = 1

\* ---------------------------------------------------------------------
\* The calibrated threshold

\* positions up to the release of the session the calibration ran on
CalibrationPcs == { "construct0", "start0", "warmup", "warmup_done", "cal_stop", "cal_release" }

\* v is a median of s: at most half of s lies below it and at most half above
IsMedianOf(v, s) ==
    /\ 2 * Cardinality({ i \in DOMAIN s : s[i] < v }) <= Len(s)
    /\ 2 * Cardinality({ i \in DOMAIN s : s[i] > v }) <= Len(s)

\* C16: the threshold is computed once, at the end of the warm-up (a median
\* of the recorded medians plus the offset, the static default when none was
\* recorded; medians -95, -93, -94 give -88), nothing changes it afterwards,
\* and every session built after the calibration is built with it.
ThresholdFixedAtStartup ==
    /\ [](/\ \A s \in { tb, rtb, fresh } :
               Holds(s) => s.thr = (IF pc \in CalibrationPcs THEN THRESHOLD_DB
                                    ELSE threshold_db)
          /\ pc \in { "construct0", "start0", "warmup", "warmup_done" } =>
               threshold_db = THRESHOLD_DB /\ idx = 0 /\ caller = "none"
          /\ WarmupResult(<< -95, -93, -94 >>) = -88)
    /\ [][ /\ pc' \in { "warmup", "warmup_done" } => pc \in { "start0", "warmup" }
           /\ IF pc = "warmup_done"
              THEN IF medians = << >> THEN threshold_db' = THRESHOLD_DB
                   ELSE IsMedianOf(threshold_db' - THRESHOLD_OFFSET_DB, medians)
              ELSE threshold_db' = threshold_db ]_vars

\* C16, witness: the calibration gave -88 and, a detection cycle later, the
\* loop scans on a session built with -88.
ThresholdFixedWitness ==
    /\ pc = "tune"
    /\ Len(sweepLog) >= 2
    /\ sweepLog[1].detected
    /\ tb.st = "started"
    /\ threshold_db = -88
    /\ tb.thr = -88

\* ---------------------------------------------------------------------
\* The detection report of a visit

\* C17: the report evaluated at a visit is built from a message the oracle
\* emitted while the hardware was tuned to the visit's channel; a message
\* stored during an earlier channel is never read again as this channel's.
ReportIsOfCurrentChannel ==
    pc = "pub_energy" => store # << >> /\ store[Len(store)].ch = Plan[idx]

\* ---------------------------------------------------------------------
\* Cooldown

\* between every a and every later b of the log there is one of the waits
\* ws: before each b there is no a, or a wait with no a after it
WaitBetween(a, b, ws) ==
    \A j \in DOMAIN events :
        events[j] = b =>
            \/ \A i \in 1 .. (j - 1) : events[i] # a
            \/ \E k \in 1 .. (j - 1) :
                  /\ events[k] \in ws
                  /\ \A i \in (k + 1) .. (j - 1) : events[i] # a

\* C18: after every close (after the calibration, before a confirmation, the
\* stop of a failed attempt of the reopen) a wait elapses before the next
\* open attempt begins; in a detection cycle one cooldown lies between the
\* close and the call of the classifier and a second one between its return
\* and the reopen.
CooldownAfterClose ==
    /\ WaitBetween("stop", "construct", { "cooldown", "delay" })
    /\ WaitBetween("stop", "call", { "cooldown" })
    /\ WaitBetween("return", "construct", { "cooldown" })
    /\ pc \in ConfirmPcs \cup { "report", "reacq_cooldown" } =>
         Count("cooldown", events) = 1
    /\ (pc \in RetryPcs /\ caller = "loop") => Count("cooldown", events) = 2
    /\ (pc \in RetryPcs /\ caller = "calibration") => Count("cooldown", events) = 1

\* C18, witness: a detection cycle whose reopen failed once: the second
\* attempt is under way after the two cooldowns and the delay.
CooldownAfterCloseWitness ==
    /\ pc = "retry_bind"
    /\ caller = "loop"
    /\ attempt = 2
    /\ Count("run", events) = 1
    /\ Count("cooldown", events) = 2
    /\ Count("delay", events) = 1

\* ---------------------------------------------------------------------
\* Use of the session

\* C20: set_center, get_latest_map and the spectrum read of the calibration
\* are only called on a started session; within a visit nothing is tuned or
\* read once the session has been stopped; a session is only ever stopped
\* from the started state, so the final teardown stops one only when main
\* holds one.
NeverUsesClosedSession ==
    /\ [](/\ pc \in { "warmup", "tune", "dwell", "read" } => tb.st = "started"
          /\ \A j \in DOMAIN events :
               events[j] \in { "tune", "read" } =>
                   \A i \in 1 .. (j - 1) : events[i] # "stop"
          /\ (pc \in ConfirmPcs \/ (pc \in RetryPcs /\ caller = "loop")) =>
               ~Holds(tb))
    /\ [][ tb'.st = "stopped" => tb.st \in { "started", "stopped" } ]_vars

\* C20, witness: the interruption arrived after the classifier returned and
\* before the reopen; the visit tuned and read before the stop, main holds
\* no session and the teardown stopped nothing.
NeverUsesClosedSessionWitness ==
    /\ pc = "interrupted"
    /\ ~Holds(tb)
    /\ Len(events) >= 2
    /\ events[Len(events) - 1] = "return"
    /\ Count("tune", events) = 1
    /\ Count("read", events) = 1
    /\ Count("stop", events) = 1

\* ---------------------------------------------------------------------
\* Progress

\* the scheduler keeps running the one thread of control: a step that can be
\* taken is taken
SpecFair == Spec /\ WF_vars(Next)

\* C19: once a non-empty report is seen, the detection cycle ends, for every
\* confirmation outcome, with the loop tuning the next channel on an open
\* session, or with the fatal open failure; unless an open fails for good,
\* every channel of the plan is visited again and again.
DetectionCycleProgress ==
    /\ (pc = "pub_energy") ~> ((pc = "tune" /\ tb.st = "started") \/ pc = "terminated")
    /\ (<>(pc = "terminated")) \/
       (\A c \in 1 .. Len(Plan) : []<>(pc = "tune" /\ idx = c))

====
